---- MODULE Spec2Model ----
(***************************************************************************)
(* Model of the dualstaking delegation keeper                              *)
(* (x/dualstaking/keeper/delegate.go): the two epoch-versioned fixation    *)
(* stores (delegations, delegators), the epochstorage stake entries, and   *)
(* the operations Delegate, Redelegate, Unbond, UnbondUniformDelegators.   *)
(***************************************************************************)
EXTENDS Integers, Sequences, FiniteSets, TLC

VARIABLES
    delegationFS,   \* fixation store of the delegations, by <<provider, delegator, chainID>>
    delegatorFS,    \* fixation store of the delegators' provider sets, by <<delegator>>
    stakeEntries,   \* epochstorage stake entries, by <<provider, chainID>>
    nextEpoch,      \* epochstorageKeeper.GetCurrentNextEpoch
    nSteps,         \* number of calls and epoch changes so far
    last,           \* the last call: its operation, arguments and returned error
    netDelegated,   \* per delegator: successful Delegate amounts minus successful Unbond amounts
    failed          \* some call so far returned an error

vars ==
    <<delegationFS, delegatorFS, stakeEntries, nextEpoch, nSteps, last, netDelegated, failed>>

stores == <<delegationFS, delegatorFS, stakeEntries>>

----------------------------------------------------------------------------
(* Bounds of the model *)

MaxSteps == 3
MinStake == 1

\* the largest amount of a delegation in the initial states of SpecUniform
MaxHeld == 4

----------------------------------------------------------------------------
(* Constants of the program and the input universe *)

EMPTY_PROVIDER == "empty_provider"
EMPTY_PROVIDER_CHAINID == ""

\* well-formed bech32 addresses; "p1" is a provider that also delegates to itself
Providers == {"p1", "p2"}
Addresses == {"d1"} \cup Providers
BadAddress == "bad"

\* sdk.AccAddressFromBech32 succeeds
AccAddressFromBech32 (addr) == addr \in Addresses

\* (provider, chainID) pairs the operations are called with
Targets ==
    { <<"p1", "c1">>, <<"p1", "c2">>, <<"p2", "c1">>,
      <<EMPTY_PROVIDER, EMPTY_PROVIDER_CHAINID>> }

\* one call for each way an input can be malformed, and the calls of amount 0
\* (a negative amount is an invalid coin)
MalformedInputs ==
    { <<BadAddress, <<"p1", "c1">>, 1>>, <<"d1", <<BadAddress, "c1">>, 1>>,
      <<"d1", <<"p1", "c1">>, -1>>, <<"d1", <<"p1", "c1">>, 0>>,
      <<"d1", <<"p2", "c1">>, 0>> }

\* the well-formed calls with the given amounts: "d1" delegates to every
\* target, the provider "p1" to itself
WellFormedInputs (amounts) ==
    {<<"d1", target, amount>> : target \in Targets, amount \in amounts}
    \cup {<<"p1", <<"p1", "c1">>, amount>> : amount \in amounts}

\* the amounts of the Delegate and Redelegate calls; larger delegations are
\* built up by several calls
DelegateAmounts == {1}

\* the amounts of the Unbond calls, which may ask for more than was delegated
UnbondAmounts == {1, 2}

\* the amounts a delegation can hold after MaxSteps calls, and one more
HeldAmounts == 1 .. MaxSteps + 1

\* <<delegator, <<provider, chainID>>, amount>> of the Delegate calls
DelegateInputs == WellFormedInputs(DelegateAmounts) \cup MalformedInputs

\* of the Unbond calls
UnbondInputs == WellFormedInputs(UnbondAmounts) \cup MalformedInputs

\* the destinations of Redelegate
ToInputs == Targets \cup {<<BadAddress, "c1">>}

\* <<source call, destination>> of the Redelegate calls: every well-formed
\* source with every destination, every malformed source with one destination
RedelegateInputs ==
    (WellFormedInputs(DelegateAmounts) \X ToInputs)
    \cup (MalformedInputs \X {<<"p1", "c2">>})

\* the inputs of UnbondUniformDelegators
UniformDelegators == {"d1", "p1", BadAddress}
UniformAmounts == {0, 1, 2}

\* isFullUnstake is read only when the delegator is the provider
UnstakeInputs (delegator, provider) ==
    IF delegator = provider THEN BOOLEAN ELSE {FALSE}

\* validateCoins: amount.IsValid()
validateCoins (amount) == amount >= 0

Epochs == 0 .. MaxSteps + 1

----------------------------------------------------------------------------
(* Fixation store: per index, a set of versions tagged with the epoch from  *)
(* which each is effective; a deletion is a tombstone version.              *)

Max (S) == CHOOSE x \in S : \A y \in S : y <= x

\* epochs of the versions of index that are effective at epoch
VersionsAt (fs, index, epoch) ==
    IF index \in DOMAIN fs
    THEN {e \in DOMAIN fs[index] : e <= epoch}
    ELSE {}

\* the version a read at epoch resolves to (only when VersionsAt is not empty)
LatestVersion (fs, index, epoch) == fs[index][Max(VersionsAt(fs, index, epoch))]

FindEntry (fs, index, epoch) ==
    IF VersionsAt(fs, index, epoch) = {}
    THEN FALSE
    ELSE ~ LatestVersion(fs, index, epoch).deleted

\* the entry found (only when FindEntry holds)
EntryValue (fs, index, epoch) == LatestVersion(fs, index, epoch).value

PutVersion (fs, index, epoch, version) ==
    LET old == IF index \in DOMAIN fs THEN fs[index] ELSE << >>
        new == [e \in (DOMAIN old) \cup {epoch} |->
                    IF e = epoch THEN version ELSE old[e]]
    IN  [i \in (DOMAIN fs) \cup {index} |-> IF i = index THEN new ELSE fs[i]]

AppendEntry (fs, index, epoch, value) ==
    PutVersion(fs, index, epoch, [deleted |-> FALSE, value |-> value])

DelEntry (fs, index, epoch) == PutVersion(fs, index, epoch, [deleted |-> TRUE])

GetAllEntryIndicesWithPrefix (fs, prefix) ==
    {i \in DOMAIN fs : \A n \in 1 .. Len(prefix) : i[n] = prefix[n]}

\* types.DelegationKey(provider, delegator, chainID)
DelegationKey (provider, delegator, chainID) == <<provider, delegator, chainID>>

\* types.DelegatorKey(delegator)
DelegatorKey (delegator) == <<delegator>>

\* types.Delegator: AddProvider, DelProvider, IsEmpty over the provider set
AddProvider (providers, provider) == providers \cup {provider}
DelProvider (providers, provider) == providers \ {provider}
IsEmpty (providers) == providers = {}

----------------------------------------------------------------------------
(* The keeper state threaded through one call, and the result of a step.    *)

State (dfs, gfs, se) == [dfs |-> dfs, gfs |-> gfs, se |-> se]

Result (s, err) == [s |-> s, err |-> err]

Cur == State(delegationFS, delegatorFS, stakeEntries)

\* the delegator entry read by FindEntry into a zero-valued types.Delegator
FindProviders (gfs, delegator, epoch) ==
    IF FindEntry(gfs, DelegatorKey(delegator), epoch)
    THEN EntryValue(gfs, DelegatorKey(delegator), epoch)
    ELSE {}

\* the delegation amount read by FindEntry into a zero-valued types.Delegation
FindAmount (dfs, provider, delegator, chainID, epoch) ==
    IF FindEntry(dfs, DelegationKey(provider, delegator, chainID), epoch)
    THEN EntryValue(dfs, DelegationKey(provider, delegator, chainID), epoch)
    ELSE 0

----------------------------------------------------------------------------
(* Stake entries of the epochstorage keeper: <<provider, chainID>> maps to  *)
(* [stake, delegateTotal]; a provider that is not staked has no entry.      *)

GetStakeEntryByAddressCurrent (se, chainID, provider) == <<provider, chainID>> \in DOMAIN se

ModifyStakeEntryCurrent (se, chainID, provider, entry) ==
    [k \in DOMAIN se |-> IF k = <<provider, chainID>> THEN entry ELSE se[k]]

getMinStake (chainID) == MinStake

\* the amount added to the delegated total also when the provider delegates
\* to itself
MutantStakeAlwaysDelegated (s, delegator, provider, chainID, amount) ==
    IF ~ AccAddressFromBech32(provider)
    THEN Result(s, "panic")
    ELSE IF ~ GetStakeEntryByAddressCurrent(s.se, chainID, provider)
    THEN Result(s, "ErrProviderNotStaked")
    ELSE LET stakeEntry == s.se[<<provider, chainID>>]
             updated == [stakeEntry EXCEPT !.delegateTotal = @ + amount]
         IN  Result([s EXCEPT !.se = ModifyStakeEntryCurrent(s.se, chainID, provider, updated)],
                    "ok")

increaseStakeEntryDelegation (s, delegator, provider, chainID, amount) ==
    IF ~ AccAddressFromBech32(provider)
    THEN Result(s, "panic")
    ELSE IF ~ GetStakeEntryByAddressCurrent(s.se, chainID, provider)
    THEN Result(s, "ErrProviderNotStaked")
    ELSE LET stakeEntry == s.se[<<provider, chainID>>]
             updated == IF delegator = provider
                        THEN [stakeEntry EXCEPT !.stake = @ + amount]
                        ELSE [stakeEntry EXCEPT !.delegateTotal = @ + amount]
         IN  Result([s EXCEPT !.se = ModifyStakeEntryCurrent(s.se, chainID, provider, updated)],
                    "ok")

\* the minimum stake checked whatever isFullUnstake says
MutantStakeIgnoresUnstake (s, delegator, provider, chainID, amount, unstake) ==
    IF ~ AccAddressFromBech32(provider)
    THEN Result(s, "panic")
    ELSE IF ~ GetStakeEntryByAddressCurrent(s.se, chainID, provider)
    THEN Result(s, "ok")
    ELSE LET stakeEntry == s.se[<<provider, chainID>>]
         IN  IF delegator = provider
             THEN IF stakeEntry.stake - amount < 0
                  THEN Result(s, "InsufficientFunds")
                  ELSE IF stakeEntry.stake - amount < getMinStake(chainID)
                  THEN Result(s, "MinStake")
                  ELSE Result([s EXCEPT !.se = ModifyStakeEntryCurrent(s.se, chainID, provider,
                                   [stakeEntry EXCEPT !.stake = @ - amount])], "ok")
             ELSE IF stakeEntry.delegateTotal - amount < 0
                  THEN Result(s, "InsufficientFunds")
                  ELSE Result([s EXCEPT !.se = ModifyStakeEntryCurrent(s.se, chainID, provider,
                                   [stakeEntry EXCEPT !.delegateTotal = @ - amount])], "ok")

decreaseStakeEntryDelegation (s, delegator, provider, chainID, amount, unstake) ==
    IF ~ AccAddressFromBech32(provider)
    THEN Result(s, "panic")
    ELSE IF ~ GetStakeEntryByAddressCurrent(s.se, chainID, provider)
    THEN Result(s, "ok")
    ELSE LET stakeEntry == s.se[<<provider, chainID>>]
         IN  IF delegator = provider
             THEN IF stakeEntry.stake - amount < 0
                  THEN Result(s, "InsufficientFunds")
                  ELSE IF ~ unstake /\ stakeEntry.stake - amount < getMinStake(chainID)
                  THEN Result(s, "MinStake")
                  ELSE Result([s EXCEPT !.se = ModifyStakeEntryCurrent(s.se, chainID, provider,
                                   [stakeEntry EXCEPT !.stake = @ - amount])], "ok")
             ELSE IF stakeEntry.delegateTotal - amount < 0
                  THEN Result(s, "InsufficientFunds")
                  ELSE Result([s EXCEPT !.se = ModifyStakeEntryCurrent(s.se, chainID, provider,
                                   [stakeEntry EXCEPT !.delegateTotal = @ - amount])], "ok")

----------------------------------------------------------------------------
(* increaseDelegation and decreaseDelegation                                *)

\* the entry read at the current epoch instead of the pending one of the next
MutantIncreaseReadsCurrent (s, delegator, provider, chainID, amount, epoch) ==
    LET index == DelegationKey(provider, delegator, chainID)
        delegationAmount == FindAmount(s.dfs, provider, delegator, chainID, epoch - 1) + amount
        dfs1 == AppendEntry(s.dfs, index, epoch, delegationAmount)
        providers == AddProvider(FindProviders(s.gfs, delegator, epoch), provider)
        gfs1 == AppendEntry(s.gfs, DelegatorKey(delegator), epoch, providers)
        s1 == [s EXCEPT !.dfs = dfs1, !.gfs = gfs1]
    IN  IF provider # EMPTY_PROVIDER
        THEN increaseStakeEntryDelegation(s1, delegator, provider, chainID, amount)
        ELSE Result(s1, "ok")

\* the stake entry updated for the sentinel as for any provider
MutantIncreaseStakesSentinel (s, delegator, provider, chainID, amount, epoch) ==
    LET index == DelegationKey(provider, delegator, chainID)
        delegationAmount == FindAmount(s.dfs, provider, delegator, chainID, epoch) + amount
        dfs1 == AppendEntry(s.dfs, index, epoch, delegationAmount)
        providers == AddProvider(FindProviders(s.gfs, delegator, epoch), provider)
        gfs1 == AppendEntry(s.gfs, DelegatorKey(delegator), epoch, providers)
        s1 == [s EXCEPT !.dfs = dfs1, !.gfs = gfs1]
    IN  increaseStakeEntryDelegation(s1, delegator, provider, chainID, amount)

\* the stake entry looked up before anything is written
MutantIncreaseChecksStakeFirst (s, delegator, provider, chainID, amount, epoch) ==
    LET index == DelegationKey(provider, delegator, chainID)
        delegationAmount == FindAmount(s.dfs, provider, delegator, chainID, epoch) + amount
        dfs1 == AppendEntry(s.dfs, index, epoch, delegationAmount)
        providers == AddProvider(FindProviders(s.gfs, delegator, epoch), provider)
        gfs1 == AppendEntry(s.gfs, DelegatorKey(delegator), epoch, providers)
        s1 == [s EXCEPT !.dfs = dfs1, !.gfs = gfs1]
    IN  IF provider # EMPTY_PROVIDER
        THEN IF ~ GetStakeEntryByAddressCurrent(s.se, chainID, provider)
             THEN Result(s, "ErrProviderNotStaked")
             ELSE increaseStakeEntryDelegation(s1, delegator, provider, chainID, amount)
        ELSE Result(s1, "ok")

increaseDelegation (s, delegator, provider, chainID, amount, epoch) ==
    LET index == DelegationKey(provider, delegator, chainID)
        delegationAmount == FindAmount(s.dfs, provider, delegator, chainID, epoch) + amount
        dfs1 == AppendEntry(s.dfs, index, epoch, delegationAmount)
        providers == AddProvider(FindProviders(s.gfs, delegator, epoch), provider)
        gfs1 == AppendEntry(s.gfs, DelegatorKey(delegator), epoch, providers)
        s1 == [s EXCEPT !.dfs = dfs1, !.gfs = gfs1]
    IN  IF provider # EMPTY_PROVIDER
        THEN increaseStakeEntryDelegation(s1, delegator, provider, chainID, amount)
        ELSE Result(s1, "ok")

\* the reduced entry appended even when nothing remains
MutantAppendZero (dfs, index, epoch, remaining) ==
    AppendEntry(dfs, index, epoch, remaining)

\* the removal that drops every version of the index instead of writing a
\* tombstone
MutantDeleteVersions (dfs, index, epoch, remaining) ==
    IF remaining = 0
    THEN [i \in (DOMAIN dfs) \ {index} |-> dfs[i]]
    ELSE AppendEntry(dfs, index, epoch, remaining)

\* lines 119-143: the delegation entry after the subtraction
decreaseDelegationEntry (dfs, index, epoch, remaining) ==
    IF remaining = 0
    THEN DelEntry(dfs, index, epoch)
    ELSE AppendEntry(dfs, index, epoch, remaining)

\* lines 159-186: the delegator entry after the subtraction
decreaseDelegatorEntry (gfs, delegator, provider, epoch, remaining) ==
    LET index == DelegatorKey(delegator)
        providers == EntryValue(gfs, index, epoch)
    IN  IF remaining = 0
        THEN IF IsEmpty(DelProvider(providers, provider))
             THEN DelEntry(gfs, index, epoch)
             ELSE gfs
        ELSE AppendEntry(gfs, index, epoch, AddProvider(providers, provider))

\* lines 119-195: the entry was found and holds at least amount
decreaseFoundDelegation (s, delegator, provider, chainID, amount, epoch, unstake) ==
    LET index == DelegationKey(provider, delegator, chainID)
        remaining == EntryValue(s.dfs, index, epoch) - amount
        s1 == [s EXCEPT !.dfs = decreaseDelegationEntry(s.dfs, index, epoch, remaining)]
    IN  IF ~ FindEntry(s1.gfs, DelegatorKey(delegator), epoch)
        THEN Result(s1, "CriticalDelegatorNotFound")
        ELSE LET s2 == [s1 EXCEPT !.gfs =
                           decreaseDelegatorEntry(s1.gfs, delegator, provider, epoch, remaining)]
             IN  IF provider # EMPTY_PROVIDER
                 THEN decreaseStakeEntryDelegation(s2, delegator, provider, chainID,
                                                   amount, unstake)
                 ELSE Result(s2, "ok")

\* the insufficient-delegation check made after the entry was removed
MutantDecreaseLateCheck (s, delegator, provider, chainID, amount, epoch, unstake) ==
    LET index == DelegationKey(provider, delegator, chainID)
    IN  IF ~ FindEntry(s.dfs, index, epoch)
        THEN Result(s, "ErrDelegationNotFound")
        ELSE IF EntryValue(s.dfs, index, epoch) < amount
        THEN Result([s EXCEPT !.dfs = DelEntry(s.dfs, index, epoch)],
                    "ErrInsufficientDelegation")
        ELSE decreaseFoundDelegation(s, delegator, provider, chainID, amount, epoch, unstake)

\* IsLT replaced by a comparison that also refuses the whole amount
MutantDecreaseRejectsEqual (s, delegator, provider, chainID, amount, epoch, unstake) ==
    LET index == DelegationKey(provider, delegator, chainID)
    IN  IF ~ FindEntry(s.dfs, index, epoch)
        THEN Result(s, "ErrDelegationNotFound")
        ELSE IF EntryValue(s.dfs, index, epoch) <= amount
        THEN Result(s, "ErrInsufficientDelegation")
        ELSE decreaseFoundDelegation(s, delegator, provider, chainID, amount, epoch, unstake)

decreaseDelegation (s, delegator, provider, chainID, amount, epoch, unstake) ==
    LET index == DelegationKey(provider, delegator, chainID)
    IN  IF ~ FindEntry(s.dfs, index, epoch)
        THEN Result(s, "ErrDelegationNotFound")
        ELSE IF EntryValue(s.dfs, index, epoch) < amount
        THEN Result(s, "ErrInsufficientDelegation")
        ELSE decreaseFoundDelegation(s, delegator, provider, chainID, amount, epoch, unstake)

----------------------------------------------------------------------------
(* Delegate, Redelegate, Unbond                                             *)

Delegate (s, delegator, provider, chainID, amount, epoch) ==
    IF ~ AccAddressFromBech32(delegator)
    THEN Result(s, "InvalidDelegatorAddress")
    ELSE IF provider # EMPTY_PROVIDER /\ ~ AccAddressFromBech32(provider)
    THEN Result(s, "InvalidProviderAddress")
    ELSE IF ~ validateCoins(amount)
    THEN Result(s, "ErrInvalidCoins")
    ELSE IF amount = 0
    THEN Result(s, "ok")
    ELSE increaseDelegation(s, delegator, provider, chainID, amount, epoch)

Redelegate (s, delegator, from, to, fromChainID, toChainID, amount, epoch) ==
    IF ~ AccAddressFromBech32(delegator)
    THEN Result(s, "InvalidDelegatorAddress")
    ELSE IF from # EMPTY_PROVIDER /\ ~ AccAddressFromBech32(from)
    THEN Result(s, "InvalidProviderAddress")
    ELSE IF to # EMPTY_PROVIDER_CHAINID /\ ~ AccAddressFromBech32(to)
    THEN Result(s, "InvalidProviderAddress")
    ELSE IF ~ validateCoins(amount)
    THEN Result(s, "ErrInvalidCoins")
    ELSE IF amount = 0
    THEN Result(s, "ok")
    ELSE LET inc == increaseDelegation(s, delegator, to, toChainID, amount, epoch)
         IN  IF inc.err # "ok"
             THEN inc
             ELSE decreaseDelegation(inc.s, delegator, from, fromChainID, amount, epoch, FALSE)

Unbond (s, delegator, provider, chainID, amount, epoch, unstake) ==
    IF ~ AccAddressFromBech32(delegator)
    THEN Result(s, "InvalidDelegatorAddress")
    ELSE IF provider # EMPTY_PROVIDER /\ ~ AccAddressFromBech32(provider)
    THEN Result(s, "InvalidProviderAddress")
    ELSE IF ~ validateCoins(amount)
    THEN Result(s, "ErrInvalidCoins")
    ELSE IF amount = 0
    THEN Result(s, "ok")
    ELSE decreaseDelegation(s, delegator, provider, chainID, amount, epoch, unstake)

----------------------------------------------------------------------------
(* Read-only accessors                                                      *)

\* the providers returned (nil for a malformed delegator address)
GetDelegatorProviders (s, delegator, epoch) ==
    IF ~ AccAddressFromBech32(delegator)
    THEN {}
    ELSE FindProviders(s.gfs, delegator, epoch)

\* lines 446-451: the error returned with the providers
GetDelegatorProvidersErr (delegator) ==
    IF ~ AccAddressFromBech32(delegator) THEN "InvalidAddress" ELSE "ok"

\* a delegation as the accessors return it
DelegationOf (dfs, index, epoch) ==
    [provider |-> index[1], delegator |-> index[2], chainID |-> index[3],
     amount |-> EntryValue(dfs, index, epoch)]

\* lines 461-468: the error returned with the delegations
GetProviderDelegatorsErr (provider) ==
    IF provider # EMPTY_PROVIDER /\ ~ AccAddressFromBech32(provider)
    THEN "InvalidAddress"
    ELSE "ok"

\* the scan without the skip of the indices that have no entry at epoch
MutantDelegatorsKeepMissing (s, provider, epoch) ==
    IF provider # EMPTY_PROVIDER /\ ~ AccAddressFromBech32(provider)
    THEN {}
    ELSE {[provider |-> ind[1], delegator |-> ind[2], chainID |-> ind[3],
           amount |-> FindAmount(s.dfs, ind[1], ind[2], ind[3], epoch)] :
            ind \in GetAllEntryIndicesWithPrefix(s.dfs, <<provider>>)}

\* the delegations returned (nil for a malformed provider address)
GetProviderDelegators (s, provider, epoch) ==
    IF provider # EMPTY_PROVIDER /\ ~ AccAddressFromBech32(provider)
    THEN {}
    ELSE {DelegationOf(s.dfs, ind, epoch) :
            ind \in {i \in GetAllEntryIndicesWithPrefix(s.dfs, <<provider>>) :
                        FindEntry(s.dfs, i, epoch)}}

\* the read made at the latest epoch whatever the epoch asked for
MutantGetDelegationLatest (s, delegator, provider, chainID, epoch) ==
    <<FindEntry(s.dfs, DelegationKey(provider, delegator, chainID), MaxSteps + 2),
      FindAmount(s.dfs, provider, delegator, chainID, MaxSteps + 2)>>

\* <<found, amount>>; the amount of the zero-valued entry when not found
GetDelegation (s, delegator, provider, chainID, epoch) ==
    <<FindEntry(s.dfs, DelegationKey(provider, delegator, chainID), epoch),
      FindAmount(s.dfs, provider, delegator, chainID, epoch)>>

\* DelegationKey(provider, delegator, "") is the prefix of the keys of every chainID
GetAllProviderDelegatorDelegations (s, delegator, provider, epoch) ==
    {DelegationOf(s.dfs, ind, epoch) :
        ind \in {i \in GetAllEntryIndicesWithPrefix(s.dfs, <<provider, delegator>>) :
                    FindEntry(s.dfs, i, epoch)}}

----------------------------------------------------------------------------
(* UnbondUniformDelegators                                                  *)

\* the result of a call made of several Unbond calls: unbonded is the sum of
\* the amounts of the Unbond calls that returned success
UniformResult (s, err, unbonded) == [s |-> s, err |-> err, unbonded |-> unbonded]

RECURSIVE MutantUnsortedDelegations (_)
\* the collected delegations processed in any order: the sort of lines
\* 552-554 left out
MutantUnsortedDelegations (delegations) ==
    IF delegations = {}
    THEN {<< >>}
    ELSE UNION {{<<first>> \o rest : rest \in MutantUnsortedDelegations(delegations \ {first})} :
                  first \in delegations}

RECURSIVE SortedDelegations (_)
\* slices.SortFunc by amount: every ascending order of the delegations
SortedDelegations (delegations) ==
    IF delegations = {}
    THEN {<< >>}
    ELSE UNION {{<<first>> \o rest : rest \in SortedDelegations(delegations \ {first})} :
                  first \in {d \in delegations :
                                \A e \in delegations : d.amount <= e.amount}}

\* lines 576-582: the leftover is taken from the highest delegation
UnbondLeftover (s, delegator, delegations, amountToDeduct, amount, epoch, unbonded) ==
    IF amount = 0
    THEN UniformResult(s, "ok", unbonded)
    ELSE IF Len(delegations) = 0
    THEN UniformResult(s, "panic", unbonded)
    ELSE LET delegation == delegations[Len(delegations)]
             r == Unbond(s, delegation.delegator, delegation.provider, delegation.chainID,
                         amountToDeduct, epoch, FALSE)
         IN  UniformResult(r.s, r.err,
                           IF r.err = "ok" THEN unbonded + amountToDeduct ELSE unbonded)

RECURSIVE MutantLoopKeepsShare (_, _, _, _, _, _, _, _)
\* the loop without the redistribution of the shortfall of a drained delegation
MutantLoopKeepsShare (s, delegator, delegations, i, amountToDeduct, amount, epoch, unbonded) ==
    IF i > Len(delegations)
    THEN UnbondLeftover(s, delegator, delegations, amountToDeduct, amount, epoch, unbonded)
    ELSE LET delegation == delegations[i]
             taken == IF delegation.amount < amountToDeduct
                      THEN delegation.amount
                      ELSE amountToDeduct
             r == Unbond(s, delegation.delegator, delegation.provider, delegation.chainID,
                         taken, epoch, FALSE)
         IN  IF r.err # "ok"
             THEN UniformResult(r.s, r.err, unbonded)
             ELSE IF amount - taken < 0
             THEN UniformResult(r.s, "panic", unbonded + taken)
             ELSE MutantLoopKeepsShare(r.s, delegator, delegations, i + 1, amountToDeduct,
                                       amount - taken, epoch, unbonded + taken)

RECURSIVE MutantLoopFullUnstake (_, _, _, _, _, _, _, _)
\* the loop with every Unbond issued as a full unstake
MutantLoopFullUnstake (s, delegator, delegations, i, amountToDeduct, amount, epoch, unbonded) ==
    IF i > Len(delegations)
    THEN UnbondLeftover(s, delegator, delegations, amountToDeduct, amount, epoch, unbonded)
    ELSE LET delegation == delegations[i]
             delegationLen == Len(delegations) - i
             drained == delegation.amount < amountToDeduct
             taken == IF drained THEN delegation.amount ELSE amountToDeduct
             r == Unbond(s, delegation.delegator, delegation.provider, delegation.chainID,
                         taken, epoch, TRUE)
         IN  IF r.err # "ok"
             THEN UniformResult(r.s, r.err, unbonded)
             ELSE IF (drained /\ delegationLen = 0) \/ amount - taken < 0
             THEN UniformResult(r.s, "panic", unbonded + taken)
             ELSE MutantLoopFullUnstake(r.s, delegator, delegations, i + 1,
                      IF drained
                      THEN amountToDeduct + ((amountToDeduct - taken) \div delegationLen)
                      ELSE amountToDeduct,
                      amount - taken, epoch, unbonded + taken)

RECURSIVE UnbondLoop (_, _, _, _, _, _, _, _)
\* lines 558-574, from the i-th delegation on
UnbondLoop (s, delegator, delegations, i, amountToDeduct, amount, epoch, unbonded) ==
    IF i > Len(delegations)
    THEN UnbondLeftover(s, delegator, delegations, amountToDeduct, amount, epoch, unbonded)
    ELSE LET delegation == delegations[i]
             delegationLen == Len(delegations) - i
         IN  IF delegation.amount < amountToDeduct
             THEN LET r == Unbond(s, delegation.delegator, delegation.provider,
                                  delegation.chainID, delegation.amount, epoch, FALSE)
                  IN  IF r.err # "ok"
                      THEN UniformResult(r.s, r.err, unbonded)
                      ELSE IF delegationLen = 0 \/ amount - delegation.amount < 0
                      THEN UniformResult(r.s, "panic", unbonded + delegation.amount)
                      ELSE UnbondLoop(r.s, delegator, delegations, i + 1,
                               amountToDeduct +
                                   ((amountToDeduct - delegation.amount) \div delegationLen),
                               amount - delegation.amount, epoch,
                               unbonded + delegation.amount)
             ELSE LET r == Unbond(s, delegation.delegator, delegation.provider,
                                  delegation.chainID, amountToDeduct, epoch, FALSE)
                  IN  IF r.err # "ok"
                      THEN UniformResult(r.s, r.err, unbonded)
                      ELSE IF amount - amountToDeduct < 0
                      THEN UniformResult(r.s, "panic", unbonded + amountToDeduct)
                      ELSE UnbondLoop(r.s, delegator, delegations, i + 1, amountToDeduct,
                                      amount - amountToDeduct, epoch,
                                      unbonded + amountToDeduct)

\* lines 544-557: collect, sort, and the first share (a division by the count)
UnbondFromProviders (s, delegator, providers, amount, epoch, unbonded) ==
    LET collected == UNION {GetAllProviderDelegatorDelegations(s, delegator, provider, epoch) :
                               provider \in providers \ {EMPTY_PROVIDER}}
    IN  IF collected = {}
        THEN {UniformResult(s, "panic", unbonded)}
        ELSE {UnbondLoop(s, delegator, delegations, 1,
                         amount \div Cardinality(collected), amount, epoch, unbonded) :
                delegations \in SortedDelegations(collected)}

\* the unplaced bucket taken to cover the amount only when it holds more
MutantUniformDrainStrict (s, delegator, amount, epoch) ==
    LET providers == GetDelegatorProviders(s, delegator, epoch)
        empty == GetDelegation(s, delegator, EMPTY_PROVIDER, EMPTY_PROVIDER_CHAINID, epoch)
    IN  IF EMPTY_PROVIDER \in providers /\ empty[1]
        THEN IF empty[2] > amount
             THEN LET r == Unbond(s, delegator, EMPTY_PROVIDER, EMPTY_PROVIDER_CHAINID,
                                  amount, epoch, FALSE)
                  IN  {UniformResult(r.s, r.err, IF r.err = "ok" THEN amount ELSE 0)}
             ELSE LET r == Unbond(s, delegator, EMPTY_PROVIDER, EMPTY_PROVIDER_CHAINID,
                                  empty[2], epoch, FALSE)
                  IN  IF r.err # "ok"
                      THEN {UniformResult(r.s, r.err, 0)}
                      ELSE UnbondFromProviders(r.s, delegator, providers, amount - empty[2],
                                               epoch, empty[2])
        ELSE UnbondFromProviders(s, delegator, providers, amount, epoch, 0)

\* the results the call can have (one for each order the sort can produce)
UnbondUniformDelegators (s, delegator, amount, epoch) ==
    LET providers == GetDelegatorProviders(s, delegator, epoch)
        empty == GetDelegation(s, delegator, EMPTY_PROVIDER, EMPTY_PROVIDER_CHAINID, epoch)
    IN  IF EMPTY_PROVIDER \in providers /\ empty[1]
        THEN IF empty[2] >= amount
             THEN LET r == Unbond(s, delegator, EMPTY_PROVIDER, EMPTY_PROVIDER_CHAINID,
                                  amount, epoch, FALSE)
                  IN  {UniformResult(r.s, r.err, IF r.err = "ok" THEN amount ELSE 0)}
             ELSE LET r == Unbond(s, delegator, EMPTY_PROVIDER, EMPTY_PROVIDER_CHAINID,
                                  empty[2], epoch, FALSE)
                  IN  IF r.err # "ok"
                      THEN {UniformResult(r.s, r.err, 0)}
                      ELSE UnbondFromProviders(r.s, delegator, providers, amount - empty[2],
                                               epoch, empty[2])
        ELSE UnbondFromProviders(s, delegator, providers, amount, epoch, 0)

----------------------------------------------------------------------------
(* The state machine: one action per public operation                       *)

\* the current epoch taken for the next one
MutantCurrentEpoch == nextEpoch - 1

GetCurrentNextEpoch == nextEpoch

RECURSIVE SumOver (_, _)
\* the sum of f over the set S
SumOver (f, S) ==
    IF S = {}
    THEN 0
    ELSE LET x == CHOOSE x \in S : TRUE
         IN  f[x] + SumOver(f, S \ {x})

\* the totals the validator-staking module can report for a delegator (the
\* sum of TokensFromShares over its validator delegations)
ValidatorTotals == {0, 3}

\* lines 588-614: the validator-staking total less the amounts of the
\* delegations found at the next epoch for the providers of the index entry
VerifyDelegatorBalance (s, delAddr, sumValidatorDelegations) ==
    LET providers == GetDelegatorProviders(s, delAddr, GetCurrentNextEpoch)
        delegations == UNION {GetAllProviderDelegatorDelegations(s, delAddr, p,
                                                                 GetCurrentNextEpoch) :
                                 p \in providers}
        sumProviderDelegations == SumOver([d \in delegations |-> d.amount], delegations)
    IN  sumValidatorDelegations - sumProviderDelegations

\* the record of a call. epoch: the next epoch boundary when it was made;
\* effect: it changed a store or a stake entry; clean: every call before it
\* returned success
Call (op, delegator, provider, chainID, to, toChainID, amount, unstake, r) ==
    [op |-> op, delegator |-> delegator, provider |-> provider, chainID |-> chainID,
     to |-> to, toChainID |-> toChainID, amount |-> amount, unstake |-> unstake,
     epoch |-> GetCurrentNextEpoch, err |-> r.err, effect |-> r.s # Cur,
     clean |-> ~ failed]

NoCall ==
    [op |-> "none", delegator |-> "", provider |-> "", chainID |-> "", to |-> "",
     toChainID |-> "", amount |-> 0, unstake |-> FALSE, epoch |-> 0, err |-> "ok",
     effect |-> FALSE, clean |-> TRUE]

\* A run takes at most MaxSteps steps (calls, epoch changes) and ends with
\* its first call without effect: such a call leaves every store as it was,
\* so the runs that go on after it pass through the same stores as the runs
\* without it.
Running == nSteps < MaxSteps /\ (last.op = "none" \/ last.effect)

\* the stake entries before the first call: "p1" is staked on both chains,
\* "p2" is not staked
NewStakeEntry == [stake |-> 0, delegateTotal |-> 0]

InitialStakeEntries ==
    [k \in {<<"p1", "c1">>, <<"p1", "c2">>} |-> NewStakeEntry]

Init ==
    /\ delegationFS = << >>
    /\ delegatorFS = << >>
    /\ stakeEntries = InitialStakeEntries
    /\ nextEpoch = 1
    /\ nSteps = 0
    /\ last = NoCall
    /\ netDelegated = [d \in Addresses |-> 0]
    /\ failed = FALSE

Commit (s) ==
    /\ delegationFS' = s.dfs
    /\ delegatorFS' = s.gfs
    /\ stakeEntries' = s.se

Credit (delegator, amount) ==
    netDelegated' = IF delegator \in Addresses
                    THEN [netDelegated EXCEPT ![delegator] = @ + amount]
                    ELSE netDelegated

DelegateStep ==
    /\ Running
    /\ \E in \in DelegateInputs :
        LET r == Delegate(Cur, in[1], in[2][1], in[2][2], in[3], GetCurrentNextEpoch)
        IN  /\ Commit(r.s)
            /\ last' = Call("Delegate", in[1], in[2][1], in[2][2], "", "", in[3], FALSE, r)
            /\ Credit(in[1], IF r.err = "ok" THEN in[3] ELSE 0)
            /\ failed' = (failed \/ r.err # "ok")
            /\ nSteps' = nSteps + 1
            /\ UNCHANGED nextEpoch

UnbondStep ==
    /\ Running
    /\ \E in \in UnbondInputs :
        \E unstake \in UnstakeInputs(in[1], in[2][1]) :
            LET r == Unbond(Cur, in[1], in[2][1], in[2][2], in[3], GetCurrentNextEpoch,
                            unstake)
            IN  /\ Commit(r.s)
                /\ last' = Call("Unbond", in[1], in[2][1], in[2][2], "", "", in[3], unstake, r)
                /\ Credit(in[1], IF r.err = "ok" THEN - in[3] ELSE 0)
                /\ failed' = (failed \/ r.err # "ok")
                /\ nSteps' = nSteps + 1
                /\ UNCHANGED nextEpoch

RedelegateStep ==
    /\ Running
    /\ \E call \in RedelegateInputs :
        LET in == call[1]
            to == call[2]
            r == Redelegate(Cur, in[1], in[2][1], to[1], in[2][2], to[2], in[3],
                            GetCurrentNextEpoch)
        IN  /\ Commit(r.s)
            /\ last' = Call("Redelegate", in[1], in[2][1], in[2][2], to[1], to[2], in[3],
                            FALSE, r)
            /\ failed' = (failed \/ r.err # "ok")
            /\ nSteps' = nSteps + 1
            /\ UNCHANGED <<nextEpoch, netDelegated>>

UnbondUniformDelegatorsStep ==
    /\ Running
    /\ \E delegator \in UniformDelegators, amount \in UniformAmounts :
        \E r \in UnbondUniformDelegators(Cur, delegator, amount, GetCurrentNextEpoch) :
            /\ Commit(r.s)
            /\ last' = Call("UnbondUniformDelegators", delegator, "", "", "", "", amount,
                            FALSE, r)
            /\ Credit(delegator, - r.unbonded)
            /\ failed' = (failed \/ r.err # "ok")
            /\ nSteps' = nSteps + 1
            /\ UNCHANGED nextEpoch

\* the chain reaches the next epoch boundary
AdvanceEpoch ==
    /\ Running
    /\ nextEpoch' = nextEpoch + 1
    /\ nSteps' = nSteps + 1
    /\ UNCHANGED <<delegationFS, delegatorFS, stakeEntries, last, netDelegated, failed>>

Next ==
    \/ DelegateStep
    \/ UnbondStep
    \/ RedelegateStep
    \/ UnbondUniformDelegatorsStep
    \/ AdvanceEpoch

Spec == Init /\ [][Next]_vars

----------------------------------------------------------------------------
(* What the claims speak of                                                 *)

ProviderIDs == Providers \cup {EMPTY_PROVIDER}
ChainIDs == {"c1", "c2", EMPTY_PROVIDER_CHAINID}

\* the providers of the delegator's index entry at the next epoch
IndexProviders (s, delegator, epoch) == FindProviders(s.gfs, delegator, epoch)

\* the chains on which the delegator has a delegation to the provider
DelegatedChains (s, delegator, provider, epoch) ==
    {c \in ChainIDs : FindAmount(s.dfs, provider, delegator, c, epoch) > 0}

\* the two indices agree for the delegator
IndexConsistent (s, delegator, epoch) ==
    /\ \A p \in ProviderIDs :
          p \in IndexProviders(s, delegator, epoch)
              <=> DelegatedChains(s, delegator, p, epoch) # {}
    /\ FindEntry(s.gfs, DelegatorKey(delegator), epoch)
          => IndexProviders(s, delegator, epoch) # {}

----------------------------------------------------------------------------
(* C1: after any sequence of Delegate, Redelegate, Unbond and               *)
(* UnbondUniformDelegators calls, at the next epoch a provider is in a      *)
(* delegator's index entry iff the delegator has a delegation of a positive *)
(* amount to it on some chain, and no index entry has an empty provider set. *)
(* Stated of the runs in which every call returned success.                 *)
C1_IndexMatchesDelegations ==
    ~ failed => \A d \in Addresses : IndexConsistent(Cur, d, nextEpoch)

----------------------------------------------------------------------------
(* C2: no call returns the critical error "delegator entry for delegation   *)
(* not found" (a Delegation entry found at the next epoch while the         *)
(* delegator's index entry is not). Stated of the calls before which every  *)
(* call returned success.                                                   *)
C2_NoCriticalError ==
    last.clean => last.err # "CriticalDelegatorNotFound"

----------------------------------------------------------------------------
(* C3: conservation. For every delegator the sum of its delegation amounts  *)
(* at the next epoch is the sum of the amounts of its successful Delegate   *)
(* calls minus that of its successful Unbond calls.                         *)

DelegationKeys (delegator) ==
    {DelegationKey(p, delegator, c) : p \in ProviderIDs, c \in ChainIDs}

\* the delegator's total at epoch
TotalDelegated (s, delegator, epoch) ==
    SumOver([k \in DelegationKeys(delegator) |-> FindAmount(s.dfs, k[1], k[2], k[3], epoch)],
            DelegationKeys(delegator))

C3_Conservation ==
    \A d \in Addresses : TotalDelegated(Cur, d, nextEpoch) = netDelegated[d]

----------------------------------------------------------------------------
(* C4: when a delegation of amount A made at an earlier epoch is unbonded   *)
(* in full by a successful Unbond(d, p, c, A, false), no Delegation entry   *)
(* (p, c, d) is left at the next epoch and p is no longer in d's index      *)
(* entry; if p was d's only provider the index entry is not found either.   *)
(* Stated of the states reached by successful calls only.                   *)

\* the delegation (p, c, d) holds the amount since before the current epoch boundary
DelegatedEarlier (s, delegator, provider, chainID, amount, epoch) ==
    /\ amount > 0
    /\ epoch > 1
    /\ FindAmount(s.dfs, provider, delegator, chainID, epoch) = amount
    /\ FindAmount(s.dfs, provider, delegator, chainID, epoch - 1) = amount

FullUnbondRemoves (s, delegator, provider, chainID, amount, epoch) ==
    LET r == Unbond(s, delegator, provider, chainID, amount, epoch, FALSE)
    IN  r.err = "ok" =>
            /\ ~ FindEntry(r.s.dfs, DelegationKey(provider, delegator, chainID), epoch)
            /\ provider \notin IndexProviders(r.s, delegator, epoch)
            /\ IndexProviders(s, delegator, epoch) = {provider}
                  => ~ FindEntry(r.s.gfs, DelegatorKey(delegator), epoch)

C4_FullUnbondRemovesProvider ==
    ~ failed =>
        \A in \in WellFormedInputs(HeldAmounts) :
            DelegatedEarlier(Cur, in[1], in[2][1], in[2][2], in[3], nextEpoch)
                => FullUnbondRemoves(Cur, in[1], in[2][1], in[2][2], in[3], nextEpoch)

----------------------------------------------------------------------------
(* C5: every version of a Delegation entry that is not a tombstone has an   *)
(* amount > 0, so every entry found at any epoch has: an entry whose amount *)
(* reaches zero is tombstoned in the same call and no zero amount is        *)
(* appended.                                                                *)
C5_AmountsPositive ==
    /\ \A index \in DOMAIN delegationFS : \A e \in DOMAIN delegationFS[index] :
          ~ delegationFS[index][e].deleted => delegationFS[index][e].value > 0
    /\ \A index \in DOMAIN delegationFS : \A e \in Epochs :
          FindEntry(delegationFS, index, e) => EntryValue(delegationFS, index, e) > 0

\* a successful Unbond has brought a delegation to zero and tombstoned it
C5_Witness ==
    /\ last.op = "Unbond" /\ last.err = "ok" /\ last.amount > 0
    /\ DelegationKey(last.provider, last.delegator, last.chainID) \in DOMAIN delegationFS
    /\ delegationFS[DelegationKey(last.provider, last.delegator, last.chainID)][last.epoch].deleted

----------------------------------------------------------------------------
(* C6: epoch delay. A Delegate, Redelegate or Unbond call made while the    *)
(* next epoch boundary is n changes the result of no accessor evaluated at  *)
(* an epoch < n.                                                            *)

QueryAddresses == Addresses \cup {BadAddress}
QueryProviders == ProviderIDs \cup {BadAddress}

\* what the four accessors return at epoch, for every argument
EpochReads (s, epoch) ==
    [providers |-> [d \in QueryAddresses |-> GetDelegatorProviders(s, d, epoch)],
     delegators |-> [p \in QueryProviders |-> GetProviderDelegators(s, p, epoch)],
     delegation |-> [k \in QueryProviders \X QueryAddresses \X ChainIDs |->
                        GetDelegation(s, k[2], k[1], k[3], epoch)],
     all |-> [k \in QueryProviders \X QueryAddresses |->
                 GetAllProviderDelegatorDelegations(s, k[2], k[1], epoch)]]

LedgerCalls == {"Delegate", "Redelegate", "Unbond"}

C6_EpochDelay ==
    [][(last'.op \in LedgerCalls /\ nextEpoch' = nextEpoch /\ stores' # stores)
          => \A e \in Epochs :
                e < nextEpoch => EpochReads(Cur, e)' = EpochReads(Cur, e)]_vars

\* a call made at the boundary n >= 2 has changed what is read at n, not at n - 1
C6_Witness ==
    /\ last.op \in LedgerCalls /\ last.effect
    /\ last.epoch = nextEpoch /\ nextEpoch >= 2
    /\ EpochReads(Cur, nextEpoch) # EpochReads(Cur, nextEpoch - 1)

----------------------------------------------------------------------------
(* C7: a Delegate or Unbond call that fails validation (malformed           *)
(* delegator, malformed non-sentinel provider, invalid amount, Unbond of    *)
(* more than the delegation or of a missing delegation) returns an error    *)
(* and leaves both stores and every stake entry as they were.               *)

\* one call for each delegator, target and way of being malformed
MalformedCalls ==
    {<<BadAddress, t, 1>> : t \in Targets}
    \cup {<<d, <<BadAddress, "c1">>, 1>> : d \in {"d1", "p1"}}
    \cup {<<d, t, -1>> : d \in {"d1", "p1"}, t \in Targets}

\* the amounts next to the one held, and 1
AmountsAround (held) == {a \in {1, held - 1, held, held + 1} : a >= 1}

MalformedCall (delegator, provider, amount) ==
    \/ ~ AccAddressFromBech32(delegator)
    \/ provider # EMPTY_PROVIDER /\ ~ AccAddressFromBech32(provider)
    \/ amount < 0

Rejected (r, s) == r.err # "ok" /\ r.s = s

C7_ValidationLeavesState ==
    /\ \A in \in MalformedCalls :
          /\ MalformedCall(in[1], in[2][1], in[3])
          /\ Rejected(Delegate(Cur, in[1], in[2][1], in[2][2], in[3], nextEpoch), Cur)
          /\ \A unstake \in BOOLEAN :
                Rejected(Unbond(Cur, in[1], in[2][1], in[2][2], in[3], nextEpoch, unstake),
                         Cur)
    /\ \A in \in WellFormedInputs({1}) : \A unstake \in UnstakeInputs(in[1], in[2][1]) :
          LET held == FindAmount(delegationFS, in[2][1], in[1], in[2][2], nextEpoch)
          IN  \A amount \in {held + 1, MaxSteps + 2} :
                  Rejected(Unbond(Cur, in[1], in[2][1], in[2][2], amount, nextEpoch,
                                  unstake), Cur)

\* a call was rejected by validation while delegations exist
C7_Witness ==
    /\ last.op \in {"Delegate", "Unbond"}
    /\ last.err \in {"InvalidDelegatorAddress", "InvalidProviderAddress", "ErrInvalidCoins",
                      "ErrDelegationNotFound"}
    /\ \E d \in Addresses : TotalDelegated(Cur, d, nextEpoch) > 0

----------------------------------------------------------------------------
(* C8: a Redelegate call that fails because the source delegation is        *)
(* missing or smaller than the amount leaves both stores and every stake    *)
(* entry as they were. Stated of the calls before which every call          *)
(* returned success.                                                        *)
C8_FailedRedelegateLeavesState ==
    (/\ last.clean
     /\ last.op = "Redelegate"
     /\ last.err \in {"ErrDelegationNotFound", "ErrInsufficientDelegation"})
        => ~ last.effect

----------------------------------------------------------------------------
(* C9: an Unbond of a positive amount fails with delegation-not-found when  *)
(* no Delegation entry is found at the next epoch, with                     *)
(* insufficient-delegation when the entry found holds less than the amount, *)
(* and with neither when it holds at least the amount.                      *)
C9_DecreaseErrors ==
    \A in \in WellFormedInputs({1}) : \A unstake \in UnstakeInputs(in[1], in[2][1]) :
        LET found == FindEntry(delegationFS, DelegationKey(in[2][1], in[1], in[2][2]),
                               nextEpoch)
            held == FindAmount(delegationFS, in[2][1], in[1], in[2][2], nextEpoch)
        IN  \A amount \in AmountsAround(held) :
                LET err == Unbond(Cur, in[1], in[2][1], in[2][2], amount, nextEpoch,
                                  unstake).err
                IN  /\ ~ found => err = "ErrDelegationNotFound"
                    /\ (found /\ held < amount) => err = "ErrInsufficientDelegation"
                    /\ (found /\ held >= amount)
                          => err \notin {"ErrDelegationNotFound", "ErrInsufficientDelegation"}

\* an Unbond asked for more than the delegation found and was refused
C9_Witness ==
    /\ last.op = "Unbond" /\ last.err = "ErrInsufficientDelegation"
    /\ 0 < FindAmount(delegationFS, last.provider, last.delegator, last.chainID, nextEpoch)
    /\ FindAmount(delegationFS, last.provider, last.delegator, last.chainID, nextEpoch)
          < last.amount

----------------------------------------------------------------------------
(* C10: in every reachable state Redelegate(d, A, B, amt) succeeds exactly  *)
(* when Unbond(d, A, amt, false) followed by Delegate(d, B, amt) succeeds,  *)
(* and then both leave the same Delegation amounts for every key at the     *)
(* next epoch. Stated of the states reached by successful calls only.       *)

DelegationAmounts (s, epoch) ==
    [k \in ProviderIDs \X Addresses \X ChainIDs |-> FindAmount(s.dfs, k[1], k[2], k[3], epoch)]

RedelegateAsUnbondDelegate (s, delegator, from, to, amount, epoch) ==
    LET r == Redelegate(s, delegator, from[1], to[1], from[2], to[2], amount, epoch)
        u == Unbond(s, delegator, from[1], from[2], amount, epoch, FALSE)
        d == Delegate(u.s, delegator, to[1], to[2], amount, epoch)
    IN  /\ r.err = "ok" <=> (u.err = "ok" /\ d.err = "ok")
        /\ r.err = "ok" => DelegationAmounts(r.s, epoch) = DelegationAmounts(d.s, epoch)

C10_RedelegateIsUnbondThenDelegate ==
    ~ failed =>
        \A in \in WellFormedInputs(UnbondAmounts), to \in Targets :
            RedelegateAsUnbondDelegate(Cur, in[1], in[2], to, in[3], nextEpoch)

----------------------------------------------------------------------------
(* C11: when a staked provider unbonds from itself an amount that would     *)
(* leave its self-stake below the minimum stake of the chain, the Unbond    *)
(* without isFullUnstake returns an error and leaves the stake entry as it  *)
(* was; with isFullUnstake the minimum-stake check does not reject it: the  *)
(* stake step reduces the self-stake by the amount whenever the self-stake  *)
(* covers it, and so does every such Unbond that returns success.           *)

\* the (provider, chain) pairs with a stake entry
StakedTargets == DOMAIN stakeEntries

SelfUnbondBelowMinStake (s, provider, chainID, amount, epoch) ==
    LET entry == s.se[<<provider, chainID>>]
        reduced == [entry EXCEPT !.stake = @ - amount]
        plain == Unbond(s, provider, provider, chainID, amount, epoch, FALSE)
        full == Unbond(s, provider, provider, chainID, amount, epoch, TRUE)
        step == decreaseStakeEntryDelegation(s, provider, provider, chainID, amount, TRUE)
    IN  (amount > 0 /\ entry.stake - amount < getMinStake(chainID))
            => /\ plain.err # "ok"
               /\ plain.s.se[<<provider, chainID>>] = entry
               /\ full.err # "MinStake"
               /\ full.err = "ok" => full.s.se[<<provider, chainID>>] = reduced
               /\ entry.stake >= amount
                     => step.err = "ok" /\ step.s.se[<<provider, chainID>>] = reduced

C11_SelfUnbondMinStake ==
    \A t \in StakedTargets :
        \A amount \in AmountsAround(FindAmount(delegationFS, t[1], t[1], t[2], nextEpoch)) :
            SelfUnbondBelowMinStake(Cur, t[1], t[2], amount, nextEpoch)

\* a provider has unbonded from itself to below the minimum stake with
\* isFullUnstake
C11_Witness ==
    /\ last.op = "Unbond" /\ last.delegator = last.provider /\ last.unstake
    /\ last.amount > 0 /\ last.err = "ok"
    /\ stakeEntries[<<last.provider, last.chainID>>].stake < MinStake

----------------------------------------------------------------------------
(* C12: whenever UnbondUniformDelegators(delegator, totalAmount) returns    *)
(* success, the sum of the delegator's delegation amounts at the next epoch *)
(* (unplaced bucket included) has decreased by exactly totalAmount. Stated  *)
(* of the states reached by successful calls only.                          *)
C12_UniformUnbondsTotal ==
    ~ failed =>
        \A d \in UniformDelegators \cap Addresses, amount \in UniformAmounts :
            \A r \in UnbondUniformDelegators(Cur, d, amount, nextEpoch) :
                r.err = "ok"
                    => TotalDelegated(r.s, d, nextEpoch)
                          = TotalDelegated(Cur, d, nextEpoch) - amount

----------------------------------------------------------------------------
(* C13: UnbondUniformDelegators always returns success or an error; it      *)
(* never aborts with a division by zero or an access out of range. Stated   *)
(* of the calls before which every call returned success.                   *)
C13_UniformNeverAborts ==
    (last.clean /\ last.op = "UnbondUniformDelegators") => last.err # "panic"

----------------------------------------------------------------------------
(* C14: step 1 of UnbondUniformDelegators. When the delegator has an        *)
(* unplaced-bucket delegation of amount U at the next epoch: if U >=        *)
(* totalAmount the call succeeds, takes exactly totalAmount from the bucket *)
(* and changes no other delegation; if U < totalAmount the bucket is        *)
(* removed and the call ends as the call for totalAmount - U made on the    *)
(* stores without the bucket.                                               *)

BucketKey (delegator) == DelegationKey(EMPTY_PROVIDER, delegator, EMPTY_PROVIDER_CHAINID)

\* the delegation amounts of every key but the delegator's bucket
OtherAmounts (s, delegator, epoch) ==
    [k \in (ProviderIDs \X Addresses \X ChainIDs) \ {BucketKey(delegator)} |->
        FindAmount(s.dfs, k[1], k[2], k[3], epoch)]

BucketCovers (s, delegator, amount, epoch, U) ==
    \A r \in UnbondUniformDelegators(s, delegator, amount, epoch) :
        /\ r.err = "ok"
        /\ r.unbonded = amount
        /\ FindAmount(r.s.dfs, EMPTY_PROVIDER, delegator, EMPTY_PROVIDER_CHAINID, epoch)
              = U - amount
        /\ OtherAmounts(r.s, delegator, epoch) = OtherAmounts(s, delegator, epoch)
        /\ r.s.se = s.se

BucketDrained (s, delegator, amount, epoch, U) ==
    LET b == Unbond(s, delegator, EMPTY_PROVIDER, EMPTY_PROVIDER_CHAINID, U, epoch, FALSE)
        rest == UnbondUniformDelegators(b.s, delegator, amount - U, epoch)
    IN  /\ b.err = "ok"
        /\ ~ FindEntry(b.s.dfs, BucketKey(delegator), epoch)
        /\ OtherAmounts(b.s, delegator, epoch) = OtherAmounts(s, delegator, epoch)
        /\ UnbondUniformDelegators(s, delegator, amount, epoch)
              = {UniformResult(r.s, r.err, r.unbonded + U) : r \in rest}
        /\ \A r \in UnbondUniformDelegators(s, delegator, amount, epoch) :
              ~ FindEntry(r.s.dfs, BucketKey(delegator), epoch)

----------------------------------------------------------------------------
(* A second specification for UnbondUniformDelegators: the stores hold the  *)
(* delegations of "d1", or else one of the provider "p1" to itself, made by *)
(* Delegate calls while the next epoch was 1, every provider is staked, the *)
(* next epoch is 2 and one call is made. The stores before the call are     *)
(* then read at epoch 1, those after it at 2.                               *)

UniformStakeEntries ==
    [k \in {<<"p1", "c1">>, <<"p1", "c2">>, <<"p2", "c1">>} |-> NewStakeEntry]

\* the amounts of the call: up to more than two full delegations
UniformTotals == 0 .. 2 * MaxHeld + 1

RECURSIVE DelegateAll (_, _, _, _)
\* Delegate(delegator, target, held[target]) for every target (amount 0: no delegation)
DelegateAll (s, delegator, held, targets) ==
    IF targets = {}
    THEN s
    ELSE LET t == CHOOSE t \in targets : TRUE
         IN  DelegateAll(Delegate(s, delegator, t[1], t[2], held[t], 1).s, delegator, held,
                         targets \ {t})

\* the amounts "p1" has delegated to itself
SelfHeld == {0, 1, 2}

InitUniform ==
    \E held \in [Targets -> 0 .. MaxHeld], self \in SelfHeld :
        /\ self = 0 \/ \A t \in Targets : held[t] = 0
        /\ LET s == Delegate(DelegateAll(State(<< >>, << >>, UniformStakeEntries), "d1",
                                         held, Targets),
                             "p1", "p1", "c1", self, 1).s
           IN  /\ delegationFS = s.dfs
               /\ delegatorFS = s.gfs
               /\ stakeEntries = s.se
               /\ nextEpoch = 2
               /\ nSteps = 0
               /\ last = NoCall
               /\ netDelegated = [d \in Addresses |-> TotalDelegated(s, d, 1)]
               /\ failed = FALSE

UniformCallStep ==
    /\ last.op = "none"
    /\ \E delegator \in {"d1", "p1"}, amount \in UniformTotals :
        \E r \in UnbondUniformDelegators(Cur, delegator, amount, GetCurrentNextEpoch) :
            /\ Commit(r.s)
            /\ last' = Call("UnbondUniformDelegators", delegator, "", "", "", "", amount,
                            FALSE, r)
            /\ Credit(delegator, - r.unbonded)
            /\ failed' = (failed \/ r.err # "ok")
            /\ nSteps' = nSteps + 1
            /\ UNCHANGED nextEpoch

NextUniform == UniformCallStep

SpecUniform == InitUniform /\ [][NextUniform]_vars

----------------------------------------------------------------------------
(* C15: step 3 of UnbondUniformDelegators follows the reference algorithm.  *)
(* With the delegations to providers sorted ascending by amount and share   *)
(* starting at totalAmount div count, each delegation in order is unbonded  *)
(* in full when its amount < share, after which share grows by              *)
(* (share - amount) div (number of delegations not yet processed), and has  *)
(* exactly share unbonded otherwise. In every call that returned success    *)
(* the amount taken from each delegation is the one of the reference (the   *)
(* largest delegation having also given what the final step takes).         *)

RECURSIVE ReferenceShare (_, _, _)
\* the share in force when the k-th of the sorted amounts is processed
ReferenceShare (amounts, k, total) ==
    IF k = 1
    THEN total \div Len(amounts)
    ELSE LET before == ReferenceShare(amounts, k - 1, total)
             notYet == Len(amounts) - (k - 1)
         IN  IF amounts[k - 1] < before /\ notYet > 0
             THEN before + ((before - amounts[k - 1]) \div notYet)
             ELSE before

ReferenceWithdrawn (amounts, k, total) ==
    IF amounts[k] < ReferenceShare(amounts, k, total)
    THEN amounts[k]
    ELSE ReferenceShare(amounts, k, total)

RECURSIVE ReferenceSum (_, _, _)
\* what the reference takes from the first k delegations
ReferenceSum (amounts, k, total) ==
    IF k = 0
    THEN 0
    ELSE ReferenceSum(amounts, k - 1, total) + ReferenceWithdrawn(amounts, k, total)

\* lines 576-582: what is left after the loop makes the final step take the
\* share from the largest delegation
FinalTaken (amounts, total) ==
    IF ReferenceSum(amounts, Len(amounts), total) # total
    THEN ReferenceShare(amounts, Len(amounts) + 1, total)
    ELSE 0

\* the delegations of the delegator to providers before the call
ProviderDelegationsBefore (delegator, epoch) ==
    {DelegationOf(delegationFS, k, epoch) :
        k \in {k \in DelegationKeys(delegator) :
                  k[1] # EMPTY_PROVIDER /\ FindEntry(delegationFS, k, epoch)}}

\* the amount the call has taken from a delegation
TakenByCall (d, epoch) ==
    d.amount - FindAmount(delegationFS, d.provider, d.delegator, d.chainID, epoch)

\* the part of the amount of the call left for step 3
LeftForProviders (delegator, amount, epoch) ==
    LET U == FindAmount(delegationFS, EMPTY_PROVIDER, delegator, EMPTY_PROVIDER_CHAINID, epoch)
    IN  IF U >= amount THEN 0 ELSE amount - U

FollowsReference (delegator, amount, epoch) ==
    LET before == ProviderDelegationsBefore(delegator, epoch - 1)
        total == LeftForProviders(delegator, amount, epoch - 1)
    IN  \E order \in SortedDelegations(before) :
            LET amounts == [k \in 1 .. Len(order) |-> order[k].amount]
            IN  \A k \in 1 .. Len(order) :
                    TakenByCall(order[k], epoch)
                        = ReferenceWithdrawn(amounts, k, total)
                            + (IF k = Len(order) THEN FinalTaken(amounts, total) ELSE 0)

\* the call reached step 3: the bucket, if any, did not cover the amount
ReachedProviders (delegator, amount, epoch) ==
    LET bucket == BucketKey(delegator)
    IN  ~ (/\ FindEntry(delegationFS, bucket, epoch)
           /\ EntryValue(delegationFS, bucket, epoch) >= amount)

C15_UniformFollowsReference ==
    (/\ last.op = "UnbondUniformDelegators"
     /\ last.err = "ok"
     /\ ReachedProviders(last.delegator, last.amount, last.epoch - 1))
        => FollowsReference(last.delegator, last.amount, last.epoch)

\* a call without a bucket has drained a delegation smaller than the first
\* share and taken more than the first share from a larger one
C15_Witness ==
    /\ last.op = "UnbondUniformDelegators" /\ last.err = "ok"
    /\ ~ FindEntry(delegationFS, BucketKey(last.delegator), last.epoch - 1)
    /\ LET before == ProviderDelegationsBefore(last.delegator, last.epoch - 1)
       IN  /\ before # {}
           /\ \E small, large \in before :
                 /\ small.amount < last.amount \div Cardinality(before)
                 /\ TakenByCall(small, last.epoch) = small.amount
                 /\ TakenByCall(large, last.epoch) > last.amount \div Cardinality(before)

----------------------------------------------------------------------------
(* C16: when the k-th Unbond made by UnbondUniformDelegators fails, the     *)
(* call returns that error at once: the stores and stake entries are those  *)
(* left by the k-1 earlier Unbond calls (the drain of the bucket included)  *)
(* and by the failed one, no later Unbond is made, and every Unbond is made *)
(* with isFullUnstake = false. Stated of the calls made in the states in    *)
(* which no call has been made yet: the failed calls are exactly those in   *)
(* which an Unbond of the reference sequence fails.                         *)

NoFailure == "none"

RECURSIVE ReferenceFailure (_, _, _, _, _, _, _)
\* the outcome of the first failing Unbond among those of the reference from
\* the j-th on (the one of the final step is the one after the last)
ReferenceFailure (s, order, amounts, total, j, epoch, unbonded) ==
    IF Len(order) = 0
    THEN UniformResult(s, NoFailure, unbonded)
    ELSE IF j <= Len(order)
    THEN LET taken == ReferenceWithdrawn(amounts, j, total)
             f == Unbond(s, order[j].delegator, order[j].provider, order[j].chainID, taken,
                         epoch, FALSE)
         IN  IF f.err # "ok"
             THEN UniformResult(f.s, f.err, unbonded)
             ELSE IF j = Len(order) /\ amounts[j] < ReferenceShare(amounts, j, total)
             THEN UniformResult(f.s, NoFailure, unbonded + taken)
             ELSE ReferenceFailure(f.s, order, amounts, total, j + 1, epoch,
                                   unbonded + taken)
    ELSE IF ReferenceSum(amounts, Len(order), total) = total
    THEN UniformResult(s, NoFailure, unbonded)
    ELSE LET f == Unbond(s, order[Len(order)].delegator, order[Len(order)].provider,
                         order[Len(order)].chainID,
                         ReferenceShare(amounts, Len(order) + 1, total), epoch, FALSE)
         IN  UniformResult(f.s, IF f.err # "ok" THEN f.err ELSE NoFailure, unbonded)

\* the delegations found in the store to the providers other than the bucket
ProviderDelegations (s, delegator, providers, epoch) ==
    {DelegationOf(s.dfs, k, epoch) :
        k \in {k \in DelegationKeys(delegator) :
                  k[1] \in providers \ {EMPTY_PROVIDER} /\ FindEntry(s.dfs, k, epoch)}}

ReferenceFailuresFrom (s, delegator, providers, total, epoch, unbonded) ==
    {f \in {ReferenceFailure(s, order, [k \in 1 .. Len(order) |-> order[k].amount], total,
                              1, epoch, unbonded) :
               order \in SortedDelegations(ProviderDelegations(s, delegator, providers,
                                                               epoch))} :
        f.err # NoFailure}

\* the failed outcomes of the reference over the providers the index lists
\* for the delegator when the call is made
ReferenceFailures (s, delegator, amount, epoch) ==
    LET providers == IndexProviders(s, delegator, epoch)
    IN  IF ~ (EMPTY_PROVIDER \in providers /\ FindEntry(s.dfs, BucketKey(delegator), epoch))
        THEN ReferenceFailuresFrom(s, delegator, providers, amount, epoch, 0)
        ELSE LET U == EntryValue(s.dfs, BucketKey(delegator), epoch)
                 b == Unbond(s, delegator, EMPTY_PROVIDER, EMPTY_PROVIDER_CHAINID,
                             IF U >= amount THEN amount ELSE U, epoch, FALSE)
             IN  IF b.err # "ok"
                 THEN {UniformResult(b.s, b.err, 0)}
                 ELSE IF U >= amount
                 THEN {}
                 ELSE ReferenceFailuresFrom(b.s, delegator, providers, amount - U, epoch, U)

C16_UniformStopsAtFailure ==
    last.op = "none" =>
    \A d \in {"d1", "p1"}, amount \in UniformTotals :
        {r \in UnbondUniformDelegators(Cur, d, amount, nextEpoch) :
            r.err \notin {"ok", "panic"}}
          = ReferenceFailures(Cur, d, amount, nextEpoch)

\* a call has failed after Unbond calls that succeeded, and what they took
\* is still taken
C16_Witness ==
    /\ last.op = "UnbondUniformDelegators" /\ last.err \notin {"ok", "panic"}
    /\ netDelegated[last.delegator] < TotalDelegated(Cur, last.delegator, last.epoch - 1)
    /\ TotalDelegated(Cur, last.delegator, last.epoch)
          <= netDelegated[last.delegator]

----------------------------------------------------------------------------
(* C17: in every reachable state VerifyDelegatorBalance(d) is the           *)
(* validator-staking total of d less the sum of the amounts of every        *)
(* delegation of d found at the next epoch, over all providers and chains.  *)
(* (It is an operator of the state: it changes no store or stake entry.)    *)

C17_BalanceIsDifference ==
    \A d \in Addresses, v \in ValidatorTotals :
        VerifyDelegatorBalance(Cur, d, v) = v - TotalDelegated(Cur, d, nextEpoch)

----------------------------------------------------------------------------
(* C18: the accessors return, at every epoch, nothing (an empty result,     *)
(* found = false) and no error when no entry matches at that epoch, also    *)
(* when the index has versions only at later epochs or is tombstoned at     *)
(* the epoch, and exactly the entries that match otherwise; an error is     *)
(* returned only by GetDelegatorProviders and GetProviderDelegators and     *)
(* only for an address that is not well formed. (They are operators of the  *)
(* state that return a value only: no store or stake entry changes.)        *)

\* the index has a version effective at epoch, and the last such version is
\* not a tombstone
Visible (fs, index, epoch) ==
    /\ index \in DOMAIN fs
    /\ \E e \in DOMAIN fs[index] :
          /\ e <= epoch
          /\ ~ fs[index][e].deleted
          /\ \A e2 \in DOMAIN fs[index] : e2 <= epoch => e2 <= e

\* the keys read: those the store has versions of, and some it may not have
QueryKeys ==
    (DOMAIN delegationFS)
        \cup {<<"p2", "d1", "c1">>, <<"p1", "d1", "c2">>, <<EMPTY_PROVIDER, "p1", "">>,
              <<BadAddress, "d1", "c1">>, <<"p1", BadAddress, "c1">>}

\* the visible delegations of the keys that begin with prefix
VisibleDelegations (prefix, epoch) ==
    {[provider |-> k[1], delegator |-> k[2], chainID |-> k[3],
      amount |-> delegationFS[k][Max({e \in DOMAIN delegationFS[k] : e <= epoch})].value] :
        k \in {k \in DOMAIN delegationFS :
                  /\ \A n \in DOMAIN prefix : k[n] = prefix[n]
                  /\ Visible(delegationFS, k, epoch)}}

AccessorsReturnMatches (epoch) ==
    /\ \A d \in QueryAddresses :
          /\ GetDelegatorProvidersErr(d) # "ok" => d \notin Addresses
          /\ d \in Addresses => GetDelegatorProvidersErr(d) = "ok"
          /\ ~ Visible(delegatorFS, <<d>>, epoch) => GetDelegatorProviders(Cur, d, epoch) = {}
    /\ \A p \in QueryProviders :
          /\ GetProviderDelegatorsErr(p) # "ok" => p \notin Addresses
          /\ p \in Addresses \cup {EMPTY_PROVIDER} =>
                /\ GetProviderDelegatorsErr(p) = "ok"
                /\ GetProviderDelegators(Cur, p, epoch) = VisibleDelegations(<<p>>, epoch)
          /\ VisibleDelegations(<<p>>, epoch) = {}
                => GetProviderDelegators(Cur, p, epoch) = {}
    /\ \A k \in QueryKeys :
          GetDelegation(Cur, k[2], k[1], k[3], epoch)[1] = Visible(delegationFS, k, epoch)
    /\ \A k \in QueryKeys :
          GetAllProviderDelegatorDelegations(Cur, k[2], k[1], epoch)
            = VisibleDelegations(<<k[1], k[2]>>, epoch)

\* (a call without effect leaves the stores of the state it was made in,
\* where the reads are already covered)
C18_AccessorsReturnMatches ==
    (last.op = "none" \/ last.effect)
        => \A epoch \in 0 .. nextEpoch : AccessorsReturnMatches(epoch)

\* a delegation key that has versions only after some epoch and is tombstoned
\* at another, and the same for an index entry
C18_Witness ==
    /\ \E k \in DOMAIN delegationFS :
          /\ \E e \in Epochs : e >= 1 /\ VersionsAt(delegationFS, k, e) = {}
          /\ \E e \in Epochs : /\ VersionsAt(delegationFS, k, e) # {}
                                /\ LatestVersion(delegationFS, k, e).deleted
    /\ \E k \in DOMAIN delegatorFS :
          /\ \E e \in Epochs : e >= 1 /\ VersionsAt(delegatorFS, k, e) = {}
          /\ \E e \in Epochs : /\ VersionsAt(delegatorFS, k, e) # {}
                                /\ LatestVersion(delegatorFS, k, e).deleted

----------------------------------------------------------------------------
(* C19: Delegate, Unbond and Redelegate of a zero amount, with a well       *)
(* formed delegator and with providers that are well formed or the          *)
(* sentinel, return success and leave the stores and the stake entries as   *)
(* they were, whether or not a delegation exists for the key.               *)

ZeroAmountIsNoOp (r) == r.err = "ok" /\ r.s = Cur

----------------------------------------------------------------------------
(* C20: versioned read. For every key and epoch E, GetDelegation at E       *)
(* returns found = false when the key has no version effective at an epoch  *)
(* <= E, and otherwise the version with the greatest effective epoch <= E   *)
(* (found = false when that version is a tombstone); writing a version, or  *)
(* a tombstone, at a later epoch changes no read at an earlier epoch.       *)

\* the epochs <= E at which the key has a version
EffectiveEpochs (k, E) ==
    IF k \in DOMAIN delegationFS THEN {e \in DOMAIN delegationFS[k] : e <= E} ELSE {}

ReadsGreatestVersion (k, E) ==
    LET read == GetDelegation(Cur, k[2], k[1], k[3], E)
    IN  /\ EffectiveEpochs(k, E) = {} => ~ read[1]
        /\ \A e \in EffectiveEpochs(k, E) :
              (\A e2 \in EffectiveEpochs(k, E) : e2 <= e)
                  => /\ read[1] = ~ delegationFS[k][e].deleted
                     /\ read[1] => read[2] = delegationFS[k][e].value

\* the stores after a version of k, or a tombstone, is written at epoch
WrittenAt (k, epoch) ==
    {State(AppendEntry(delegationFS, k, epoch, 1), delegatorFS, stakeEntries),
     State(DelEntry(delegationFS, k, epoch), delegatorFS, stakeEntries)}

LaterWriteKeepsRead (k, E) ==
    \A later \in E + 1 .. nextEpoch + 1 :
        \A s \in WrittenAt(k, later) :
            GetDelegation(s, k[2], k[1], k[3], E) = GetDelegation(Cur, k[2], k[1], k[3], E)

----------------------------------------------------------------------------
(* C21: tombstone history. When an Unbond removes a Delegation entry, or    *)
(* with it the delegator's index entry, with effect at the epoch e, a read  *)
(* of the key at every epoch >= e returns not found and a read at every     *)
(* epoch < e returns what it returned before the removal.                   *)

\* the index, found at e before the step, is not found at e after it
Removed (fs, index, e) == FindEntry(fs, index, e) /\ ~ FindEntry(fs', index, e)

\* what a read of the index at epoch returns: <<found, value>>
ReadAt (fs, index, epoch) ==
    IF FindEntry(fs, index, epoch)
    THEN <<TRUE, EntryValue(fs, index, epoch)>>
    ELSE <<FALSE, 0>>

TombstoneHistory (fs, index, e) ==
    Removed(fs, index, e)
        => \A E \in Epochs :
              IF E >= e
              THEN ~ FindEntry(fs', index, E)
              ELSE ReadAt(fs', index, E) = ReadAt(fs, index, E)

C21_TombstoneHistory ==
    [][(last'.op = "Unbond" /\ nextEpoch' = nextEpoch /\ stores' # stores)
          => /\ TombstoneHistory(delegationFS,
                    DelegationKey(last'.provider, last'.delegator, last'.chainID),
                    nextEpoch)
             /\ TombstoneHistory(delegatorFS, DelegatorKey(last'.delegator), nextEpoch)]_vars

\* an Unbond has removed, at the boundary n >= 2, a delegation and the index
\* entry that were found at n - 1 and still are
C21_Witness ==
    /\ last.op = "Unbond" /\ last.err = "ok" /\ last.epoch = nextEpoch /\ nextEpoch >= 2
    /\ ~ GetDelegation(Cur, last.delegator, last.provider, last.chainID, nextEpoch)[1]
    /\ GetDelegation(Cur, last.delegator, last.provider, last.chainID, nextEpoch - 1)[1]
    /\ ~ FindEntry(delegatorFS, DelegatorKey(last.delegator), nextEpoch)
    /\ FindEntry(delegatorFS, DelegatorKey(last.delegator), nextEpoch - 1)

----------------------------------------------------------------------------
(* C22: the calls made on one (provider, chain, delegator) key while the    *)
(* next epoch is n accumulate in one version effective at n: every          *)
(* successful Delegate, Unbond or Redelegate adds its amount to, or takes   *)
(* it from, the amount read at n before the call (the pending version of    *)
(* the earlier calls), and adds no version at another epoch.                *)

\* what a successful call adds to the amount of the key
CallDelta (call, k) ==
    (IF \/ call.op = "Delegate"
           /\ k = DelegationKey(call.provider, call.delegator, call.chainID)
        \/ call.op = "Redelegate"
           /\ k = DelegationKey(call.to, call.delegator, call.toChainID)
     THEN call.amount ELSE 0)
    - (IF /\ call.op \in {"Unbond", "Redelegate"}
          /\ k = DelegationKey(call.provider, call.delegator, call.chainID)
       THEN call.amount ELSE 0)

VersionEpochs (fs, k) == IF k \in DOMAIN fs THEN DOMAIN fs[k] ELSE {}

C22_SameEpochCallsAccumulate ==
    [][(last'.op \in LedgerCalls /\ last'.err = "ok" /\ nextEpoch' = nextEpoch
          /\ stores' # stores)
          => \A k \in (DOMAIN delegationFS) \cup (DOMAIN delegationFS') :
                /\ FindAmount(delegationFS', k[1], k[2], k[3], nextEpoch)
                      = FindAmount(delegationFS, k[1], k[2], k[3], nextEpoch)
                          + CallDelta(last', k)
                /\ VersionEpochs(delegationFS', k)
                      \subseteq VersionEpochs(delegationFS, k) \cup {nextEpoch}]_vars

\* the key of the last Delegate holds more than the call's amount in its
\* only version, the one effective at the next epoch
C22_Witness ==
    /\ last.op = "Delegate" /\ last.err = "ok" /\ last.epoch = nextEpoch
    /\ LET k == DelegationKey(last.provider, last.delegator, last.chainID)
       IN  /\ VersionEpochs(delegationFS, k) = {nextEpoch}
           /\ FindAmount(delegationFS, k[1], k[2], k[3], nextEpoch) > last.amount

----------------------------------------------------------------------------
(* C23: a successful Delegate or Unbond of the amount A to or from a        *)
(* provider p other than the sentinel on the chain c changes one field of   *)
(* the stake entry of p on c by A: the self stake when the delegator is p,  *)
(* the delegated total otherwise; the other field and every other stake     *)
(* entry are unchanged. (When p has no stake entry on c, the case of C32,   *)
(* no stake entry changes.)                                                 *)

\* the stake entry with the amount added to the field of the delegator
StakeEntryPlus (entry, delegator, provider, amount) ==
    IF delegator = provider
    THEN [stake |-> entry.stake + amount, delegateTotal |-> entry.delegateTotal]
    ELSE [stake |-> entry.stake, delegateTotal |-> entry.delegateTotal + amount]

C23_OneStakeFieldChanges ==
    [][(/\ last'.op \in {"Delegate", "Unbond"} /\ last'.err = "ok"
        /\ last'.provider # EMPTY_PROVIDER
        /\ nextEpoch' = nextEpoch)
          => /\ DOMAIN stakeEntries' = DOMAIN stakeEntries
             /\ \A t \in DOMAIN stakeEntries :
                   stakeEntries'[t] =
                       IF t = <<last'.provider, last'.chainID>>
                       THEN StakeEntryPlus(stakeEntries[t], last'.delegator, last'.provider,
                                IF last'.op = "Delegate" THEN last'.amount
                                                         ELSE - last'.amount)
                       ELSE stakeEntries[t]]_vars

\* a provider has taken back a part of its delegation to itself
C23_Witness ==
    /\ last.op = "Unbond" /\ last.err = "ok" /\ last.amount > 0
    /\ last.delegator = last.provider
    /\ <<last.provider, last.chainID>> \in DOMAIN stakeEntries
    /\ stakeEntries[<<last.provider, last.chainID>>].stake > 0

----------------------------------------------------------------------------
(* C24: a Delegate to or an Unbond from the sentinel provider does not      *)
(* validate the sentinel as an address, reads no stake entry (it does the   *)
(* same with no provider staked) and changes none: it changes at most the   *)
(* Delegation entry of (sentinel, chain, delegator) and the index entry of  *)
(* the delegator.                                                           *)

\* the versions of every index but the given one are the same in both stores
SameButAt (fs1, fs2, index) ==
    \A i \in ((DOMAIN fs1) \cup (DOMAIN fs2)) \ {index} :
        i \in DOMAIN fs1 /\ i \in DOMAIN fs2 /\ fs1[i] = fs2[i]

\* the call of the record made with no provider staked
WithoutStakeEntries (call) ==
    LET s == State(delegationFS, delegatorFS, << >>)
    IN  IF call.op = "Delegate"
        THEN Delegate(s, call.delegator, call.provider, call.chainID, call.amount,
                      GetCurrentNextEpoch)
        ELSE Unbond(s, call.delegator, call.provider, call.chainID, call.amount,
                    GetCurrentNextEpoch, call.unstake)

C24_SentinelTouchesNoStakeEntry ==
    [][(/\ last'.op \in {"Delegate", "Unbond"} /\ last'.provider = EMPTY_PROVIDER
        /\ AccAddressFromBech32(last'.delegator) /\ validateCoins(last'.amount)
        /\ nextEpoch' = nextEpoch)
          => /\ last'.err \notin {"InvalidProviderAddress", "panic", "ErrProviderNotStaked"}
             /\ stakeEntries' = stakeEntries
             /\ SameButAt(delegationFS, delegationFS',
                          DelegationKey(EMPTY_PROVIDER, last'.delegator, last'.chainID))
             /\ SameButAt(delegatorFS, delegatorFS', DelegatorKey(last'.delegator))
             /\ LET r == WithoutStakeEntries(last')
                IN  /\ r.err = last'.err
                    /\ r.s.dfs = delegationFS' /\ r.s.gfs = delegatorFS'
                    /\ r.s.se = << >>]_vars

\* an Unbond from the sentinel has taken what a Delegate had put there, while
\* a stake entry holds a delegated total
C24_Witness ==
    /\ last.op = "Unbond" /\ last.provider = EMPTY_PROVIDER /\ last.err = "ok"
    /\ last.effect
    /\ DelegationKey(EMPTY_PROVIDER, last.delegator, last.chainID) \in DOMAIN delegationFS
    /\ \E t \in DOMAIN stakeEntries : stakeEntries[t].delegateTotal > 0

----------------------------------------------------------------------------
(* C25: for every provider p with a stake entry on the chain c, the         *)
(* delegated total of the entry is the sum of the delegations to (p, c) of  *)
(* the delegators other than p at the next epoch, and its self stake less   *)
(* the initial one is the delegation of p to (p, c), after any sequence of  *)
(* calls, successful or not.                                                *)

\* the sum of the delegations to (provider, chainID) of the given delegators
DelegatedTo (provider, chainID, delegators) ==
    SumOver([d \in delegators |->
                FindAmount(delegationFS, provider, d, chainID, nextEpoch)], delegators)

C25_StakeEntriesMatchLedger ==
    \A t \in DOMAIN stakeEntries :
        /\ stakeEntries[t].delegateTotal = DelegatedTo(t[1], t[2], Addresses \ {t[1]})
        /\ stakeEntries[t].stake - InitialStakeEntries[t].stake
              = DelegatedTo(t[1], t[2], {t[1]})

----------------------------------------------------------------------------
(* C26: an Unbond that the stake entry step rejects (a self unbond below    *)
(* the minimum stake without isFullUnstake, or more than the self stake or  *)
(* the delegated total holds) leaves the Delegation entry and the index     *)
(* entry of the delegator at the next epoch, and the stake entry, as they   *)
(* were before the call.                                                    *)

StakeStepErrors == {"MinStake", "InsufficientFunds"}

C26_RejectedUnbondLeavesLedger ==
    (last.op = "Unbond" /\ last.err \in StakeStepErrors) => ~ last.effect

----------------------------------------------------------------------------
(* C27: a Delegate of a positive amount to a well formed provider other     *)
(* than the sentinel that has no stake entry on the chain returns the       *)
(* provider-not-staked error with its writes kept: the Delegation entry at  *)
(* the next epoch holds the increased amount and the provider is in the     *)
(* delegator's index entry, and no stake entry is created or changed.       *)

C27_UnstakedDelegateKeepsWrites ==
    [][(/\ last'.op = "Delegate" /\ last'.amount > 0
        /\ AccAddressFromBech32(last'.delegator) /\ AccAddressFromBech32(last'.provider)
        /\ <<last'.provider, last'.chainID>> \notin DOMAIN stakeEntries
        /\ nextEpoch' = nextEpoch)
          => /\ last'.err = "ErrProviderNotStaked"
             /\ FindAmount(delegationFS', last'.provider, last'.delegator, last'.chainID,
                           nextEpoch)
                   = FindAmount(delegationFS, last'.provider, last'.delegator,
                                last'.chainID, nextEpoch) + last'.amount
             /\ last'.provider \in FindProviders(delegatorFS', last'.delegator, nextEpoch)
             /\ stakeEntries' = stakeEntries]_vars

\* the second Delegate to a provider that is not staked has failed as the
\* first, and the entry holds the amounts of both
C27_Witness ==
    /\ last.op = "Delegate" /\ last.err = "ErrProviderNotStaked" /\ last.amount > 0
    /\ <<last.provider, last.chainID>> \notin DOMAIN stakeEntries
    /\ FindAmount(delegationFS, last.provider, last.delegator, last.chainID, nextEpoch)
          > last.amount
    /\ last.provider \in FindProviders(delegatorFS, last.delegator, nextEpoch)

----------------------------------------------------------------------------
(* C28: Redelegate takes the sentinel as a destination as Delegate does:    *)
(* with a well formed delegator and a source that holds the amount it does  *)
(* not validate the sentinel, succeeds, adds the amount to the bucket and   *)
(* changes no stake entry for the destination; a sentinel source is         *)
(* accepted without validation as well.                                     *)

C28_RedelegateToSentinel ==
    [][(/\ last'.op = "Redelegate" /\ last'.amount > 0
        /\ AccAddressFromBech32(last'.delegator)
        /\ nextEpoch' = nextEpoch)
          => /\ (/\ last'.to = EMPTY_PROVIDER
                 /\ last'.provider # EMPTY_PROVIDER
                 /\ FindAmount(delegationFS, last'.provider, last'.delegator,
                               last'.chainID, nextEpoch) >= last'.amount)
                => /\ last'.err = "ok"
                   /\ FindAmount(delegationFS', EMPTY_PROVIDER, last'.delegator,
                                 last'.toChainID, nextEpoch)
                         = FindAmount(delegationFS, EMPTY_PROVIDER, last'.delegator,
                                      last'.toChainID, nextEpoch) + last'.amount
                   /\ \A t \in DOMAIN stakeEntries :
                         t # <<last'.provider, last'.chainID>>
                             => stakeEntries'[t] = stakeEntries[t]
             /\ (last'.provider = EMPTY_PROVIDER /\ AccAddressFromBech32(last'.to))
                => last'.err # "InvalidProviderAddress"]_vars

----------------------------------------------------------------------------
(* C29: a Redelegate of a positive amount fails whenever the source key     *)
(* has no Delegation entry at the next epoch before the call, or one with   *)
(* less than the amount, whatever the destination is, the source itself     *)
(* included.                                                                *)

C29_RedelegateNeedsSource ==
    [][(/\ last'.op = "Redelegate" /\ last'.amount > 0
        /\ nextEpoch' = nextEpoch
        /\ FindAmount(delegationFS, last'.provider, last'.delegator, last'.chainID,
                      nextEpoch) < last'.amount)
          => last'.err # "ok"]_vars

----------------------------------------------------------------------------
(* C30: UnbondUniformDelegators returns success whenever the amount is      *)
(* positive and at most the sum of the delegations of the delegator at the  *)
(* next epoch (the bucket included), the delegator has a delegation to a    *)
(* provider, is not a provider itself, and the stake entries agree with     *)
(* the ledger.                                                              *)

C30_UniformSucceeds ==
    (/\ last.op = "UnbondUniformDelegators"
     /\ last.delegator \notin Providers /\ AccAddressFromBech32(last.delegator)
     /\ last.amount > 0
     /\ last.amount <= TotalDelegated(Cur, last.delegator, last.epoch - 1)
     /\ ProviderDelegationsBefore(last.delegator, last.epoch - 1) # {})
        => last.err = "ok"

----------------------------------------------------------------------------
(* C31: in every successful call of UnbondUniformDelegators that reaches    *)
(* the delegations to providers, taken in ascending order of amount, the    *)
(* delegations the loop drains in full come before every delegation it      *)
(* only reduces, every delegation it only reduces has the same amount       *)
(* withdrawn, and the amount withdrawn from a delegation is never smaller   *)
(* than the one withdrawn from a delegation with a smaller starting amount. *)
(* The amount the loop withdraws from a delegation is the amount the call   *)
(* has taken from it, less, for the delegation processed last, what the     *)
(* final step of lines 576-582 takes from it.                               *)

\* what the loop of lines 558-574 has taken from the k-th delegation
LoopTaken (order, k, total, epoch) ==
    LET amounts == [j \in 1 .. Len(order) |-> order[j].amount]
    IN  TakenByCall(order[k], epoch)
            - (IF k = Len(order) THEN FinalTaken(amounts, total) ELSE 0)

DrainedByLoop (order, k, total, epoch) ==
    LoopTaken(order, k, total, epoch) = order[k].amount

EvenWithdrawal (order, total, epoch) ==
    /\ \A j, k \in 1 .. Len(order) : j < k => order[j].amount <= order[k].amount
    /\ \A j, k \in 1 .. Len(order) :
          (j < k /\ DrainedByLoop(order, k, total, epoch))
              => DrainedByLoop(order, j, total, epoch)
    /\ \A j, k \in 1 .. Len(order) :
          (~ DrainedByLoop(order, j, total, epoch) /\ ~ DrainedByLoop(order, k, total, epoch))
              => LoopTaken(order, j, total, epoch) = LoopTaken(order, k, total, epoch)
    /\ \A j, k \in 1 .. Len(order) :
          order[j].amount < order[k].amount
              => LoopTaken(order, j, total, epoch) <= LoopTaken(order, k, total, epoch)
    /\ \A k \in 1 .. Len(order) :
          /\ LoopTaken(order, k, total, epoch) >= 0
          /\ LoopTaken(order, k, total, epoch) <= order[k].amount

C31_UniformIsEven ==
    (/\ last.op = "UnbondUniformDelegators"
     /\ last.err = "ok"
     /\ ReachedProviders(last.delegator, last.amount, last.epoch - 1))
        => \E order \in SortedDelegations(
                            ProviderDelegationsBefore(last.delegator, last.epoch - 1)) :
              EvenWithdrawal(order,
                             LeftForProviders(last.delegator, last.amount, last.epoch - 1),
                             last.epoch)

\* a successful call has drained a delegation and reduced two larger ones,
\* of different amounts, by the same positive amount without draining them
C31_Witness ==
    /\ last.op = "UnbondUniformDelegators" /\ last.err = "ok"
    /\ ReachedProviders(last.delegator, last.amount, last.epoch - 1)
    /\ \E order \in SortedDelegations(
                        ProviderDelegationsBefore(last.delegator, last.epoch - 1)) :
          LET total == LeftForProviders(last.delegator, last.amount, last.epoch - 1)
          IN  /\ Len(order) = 3
              /\ EvenWithdrawal(order, total, last.epoch)
              /\ order[1].amount > 0
              /\ DrainedByLoop(order, 1, total, last.epoch)
              /\ ~ DrainedByLoop(order, 2, total, last.epoch)
              /\ ~ DrainedByLoop(order, 3, total, last.epoch)
              /\ order[2].amount < order[3].amount
              /\ LoopTaken(order, 2, total, last.epoch) > order[1].amount

----------------------------------------------------------------------------
(* C32: an Unbond of a positive amount, not more than the delegation held   *)
(* at the next epoch, from a well-formed provider other than the sentinel   *)
(* that has no stake entry on the chain returns success: the amount read    *)
(* at the next epoch for the key is the amount before the call less the     *)
(* call's amount, the provider is in the delegator's index set at the next  *)
(* epoch exactly when a delegation of the delegator to it is left on some   *)
(* chain, and the stake entries are as before the call.                     *)

\* the call found no stake entry of the provider on the chain and the
\* delegation held covers the amount
UnbondFromUnstaked (call, epoch) ==
    /\ call.op = "Unbond" /\ call.amount > 0
    /\ AccAddressFromBech32(call.provider) /\ call.provider # EMPTY_PROVIDER
    /\ <<call.provider, call.chainID>> \notin DOMAIN stakeEntries
    /\ FindAmount(delegationFS, call.provider, call.delegator, call.chainID, epoch)
          >= call.amount

C32_UnstakedUnbondSucceeds ==
    [][(UnbondFromUnstaked(last', nextEpoch) /\ nextEpoch' = nextEpoch)
          => /\ last'.err = "ok"
             /\ FindAmount(delegationFS', last'.provider, last'.delegator, last'.chainID,
                           nextEpoch)
                   = FindAmount(delegationFS, last'.provider, last'.delegator,
                                last'.chainID, nextEpoch) - last'.amount
             /\ stakeEntries' = stakeEntries
             /\ (last'.provider \in FindProviders(delegatorFS', last'.delegator, nextEpoch))
                   <=> (\E chainID \in ChainIDs :
                          FindAmount(delegationFS', last'.provider, last'.delegator,
                                     chainID, nextEpoch) > 0)]_vars

\* the part of C32 that leaves the index aside: the call returns success,
\* the amount of the key is reduced by the call's amount and the stake
\* entries are as before
C32_SucceedsWithoutStakeEntry ==
    [][(UnbondFromUnstaked(last', nextEpoch) /\ nextEpoch' = nextEpoch)
          => /\ last'.err = "ok"
             /\ FindAmount(delegationFS', last'.provider, last'.delegator, last'.chainID,
                           nextEpoch)
                   = FindAmount(delegationFS, last'.provider, last'.delegator,
                                last'.chainID, nextEpoch) - last'.amount
             /\ stakeEntries' = stakeEntries]_vars

\* an Unbond from a provider without a stake entry on the chain has
\* returned success
C32_Reached ==
    /\ last.op = "Unbond" /\ last.err = "ok" /\ last.amount > 0
    /\ AccAddressFromBech32(last.provider) /\ last.provider # EMPTY_PROVIDER
    /\ <<last.provider, last.chainID>> \notin DOMAIN stakeEntries

====
